---- MODULE Spec2Model ----
(***************************************************************************)
(* A model of the voxel world of main.py: the block store (world,         *)
(* sectors), the visibility engine (shown, _shown), the deferred work      *)
(* queue and its drain routines, the sector streaming and the ray caster,  *)
(* and of what Window does with it: the tick (update), the collision       *)
(* resolution (collide) and the mouse (on_mouse_press).                    *)
(*                                                                         *)
(* Every method of Model is an operator from a "frame" (a record holding   *)
(* the fields of the Model object plus what one handler call produces: the *)
(* backend calls it issued and whether it raised) to the frame after the   *)
(* call, composed the way the code calls them.  An action applies one      *)
(* handler, whole, to the current state.                                   *)
(*                                                                         *)
(* Continuous coordinates are fixed-point integers in units of 1/SubSteps  *)
(* (1/8): every float the modelled runs produce is a multiple of 1/8 and   *)
(* so exact in binary floating point.                                      *)
(***************************************************************************)
EXTENDS Integers, Sequences, FiniteSets, TLC

VARIABLES world, shown, _shown, sectors, queue, hit, collided, window_sector,
          window_position, exclusive, mark

vars == <<world, shown, _shown, sectors, queue, hit, collided, window_sector,
          window_position, exclusive, mark>>

(***************************************************************************)
(* Program constants                                                       *)
(***************************************************************************)
SECTOR_SIZE == 16

\* m of hit_test: sub-steps per unit of length; also the fixed-point unit.
SubSteps == 8

\* The default max_distance of hit_test.
MAX_DISTANCE == 8
\* m of update: motion steps per tick.
Steps == 8
PLAYER_HEIGHT == 2

\* The time budget of process_queue, 1 / TICKS_PER_SEC, in clock units.
Budget == 2

\* pad of collide, 0.25, in fixed-point units.
Padding == 2

\* pad of change_sectors.
PAD == 4

STONE == "STONE"

BRICK == "BRICK"

GRASS == "GRASS"

SAND == "SAND"

WOOD == "WOOD"

LEAF == "LEAF"

\* The mouse buttons.
LEFT == "LEFT"
RIGHT == "RIGHT"
MIDDLE == "MIDDLE"
\* The materials the player can hold.
inventory == <<BRICK, GRASS, SAND, WOOD, LEAF>>
WATER == "WATER"

FACES ==
  << <<0, 1, 0>>, <<0, -1, 0>>, <<-1, 0, 0>>, <<1, 0, 0>>, <<0, 0, 1>>, <<0, 0, -1>> >>

\* Python's None (also the empty `previous` of hit_test); a tuple, so that it
\* compares with positions.
None == <<>>

(***************************************************************************)
(* Bounds of the model                                                     *)
(***************************************************************************)
\* Longest work queue an action may leave behind.
MaxQueue == 2

\* The block positions the full model works on: a cell and its 6 neighbours.
\* They lie in 3 sectors, two of them at negative coordinates.
Positions == {<<0, 0, 0>>} \cup {FACES[i] : i \in 1..6}

\* The positions of the queue and streaming scenarios: two neighbouring
\* cells, one in sector (0,0,0) and one in sector (-1,0,0).
QueuePositions == {<<0, 0, 0>>, <<-1, 0, 0>>}

\* The positions of the block store scenarios: two cells that share the
\* bucket of sector (0,0,0) and one in sector (-1,0,0).
StorePositions == {<<0, 0, 0>>, <<0, 0, 1>>, <<-1, 0, 0>>}

\* The cells the ray caster scenarios put blocks in.
HitPositions == {<<0, 0, 0>>, <<0, 0, 1>>, <<1, 0, 0>>}

\* Ray origins (fixed-point): (0,0,5), (0,0,0.5), (0,0,1.5) and (-2.5,0,2).
Origins == {<<0, 0, 40>>, <<0, 0, 4>>, <<0, 0, 12>>, <<-20, 0, 16>>}

\* Sight vectors (fixed-point): (0,0,-1), (0,0,1), (1,0,-1) and (2,0,-1); each
\* component is a multiple of SubSteps, so that a step of the ray is a whole
\* number of fixed-point units.
Vectors == {<<0, 0, -8>>, <<0, 0, 8>>, <<8, 0, -8>>, <<16, 0, -8>>}

\* The values of max_distance the ray caster is called with.
Distances == {MAX_DISTANCE, 2}

Materials == {STONE, BRICK}

\* The heights the height map may give a column: one under water, a low one
\* of sand and grass, a high one of grass; and the tree heights the random
\* generator may draw (0: no tree).
InitHeights == {3, 5, 7}

TreeHeights == {0, 3, 4}

\* The passes of world generation, as <<x, z, h, treeHeight>>: column (0,0)
\* with any height and tree, column (1,0) with any height and no tree.
Passes ==
  {<<0, 0, h, t>> : h \in InitHeights, t \in TreeHeights}
    \cup {<<1, 0, h, 0>> : h \in InitHeights}

\* What the clock may advance by while one queue entry runs: nothing it can
\* resolve, half the budget, more than the whole budget.
Costs == {0, 1, 3}

\* The cells the collision scenarios put blocks in: a floor, a wall of two
\* blocks and a ceiling around the cell (0,1,0).
CollidePositions == {<<0, 0, 0>>, <<1, 0, 0>>, <<1, 1, 0>>, <<0, 2, 0>>}

\* The positions an entity asks to move to (fixed-point): (0,0.5,0),
\* (0,0.75,0), (0,1,0), (0,1.375,0), (0.375,1,0), (0.375,1.375,0),
\* (0.25,0.25,0) and (-0.375,1,0.5).
Desired ==
  {<<0, 4, 0>>, <<0, 6, 0>>, <<0, 8, 0>>, <<0, 11, 0>>, <<3, 8, 0>>,
   <<3, 11, 0>>, <<2, 2, 0>>, <<-3, 8, 4>>}

\* The heights of the entity, in cells.
Heights == {1, 2}

\* The vertical velocities an entity may have when it collides.
Velocities == {-4, 4}

\* The sectors the player is moved between: the disk around (3,0,0) holds
\* sectors (-1,0,0) and (0,0,0), the one around (4,0,0) only (0,0,0), the
\* one around (5,0,0) neither.
PlayerSectors == {<<3, 0, 0>>, <<4, 0, 0>>, <<5, 0, 0>>}
\* Where the player is let go: one block to either side of the start along
\* x, and down to where a floor under the start stops a fall.
Arena ==
  (15 * SubSteps..17 * SubSteps) \X (30 * SubSteps - Padding..30 * SubSteps)
    \X {16 * SubSteps}
\* The displacements of one motion step: at rest or along x; falling.
Walks == {<<0, 0, 0>>, <<1, 0, 0>>, <<-1, 0, 0>>}
Falls == {<<0, -1, 0>>}
\* A block a sector change at the start border streams in or out, and the
\* block under the player's feet.
FarBlock == <<80, 0, 16>>
FloorBlock == <<16, 28, 16>>
\* The sights of the clicking player (fixed-point): ahead along -z and down.
Sights == {<<0, 0, -8>>, <<0, -8, 0>>}
\* The blocks the clicking player finds: one two cells ahead, and the floor.
MouseBlocks == {<<16, 30, 14>>, FloorBlock}
\* The materials the clicking player holds.
Held == {inventory[1]}
\* The sectors on both sides of the border the player starts on.
StartSectors == {<<0, 0, 1>>, <<1, 0, 1>>}

(***************************************************************************)
(* Geometry utilities                                                      *)
(***************************************************************************)
Plus(p, d) == <<p[1] + d[1], p[2] + d[2], p[3] + d[3]>>

\* An integer block position as a continuous (fixed-point) position.
Real(p) == <<p[1] * SubSteps, p[2] * SubSteps, p[3] * SubSteps>>

\* Python 3's round() on a fixed-point number: to the nearest integer, a tie
\* to the even one.
round(n) ==
  LET q == n \div SubSteps
      r == n % SubSteps
  IN  IF 2 * r < SubSteps THEN q
      ELSE IF 2 * r > SubSteps THEN q + 1
      ELSE IF q % 2 = 0 THEN q ELSE q + 1

normalize(position) == <<round(position[1]), round(position[2]), round(position[3])>>

sectorize(position) ==
  LET n == normalize(position)
  IN  <<n[1] \div SECTOR_SIZE, 0, n[3] \div SECTOR_SIZE>>

(***************************************************************************)
(* Dictionaries and lists                                                  *)
(***************************************************************************)
Put(f, k, v) == [x \in DOMAIN f \cup {k} |-> IF x = k THEN v ELSE f[x]]

Drop(f, k) == [x \in DOMAIN f \ {k} |-> f[x]]

\* dict.get(k, [])
GetList(f, k) == IF k \in DOMAIN f THEN f[k] ELSE <<>>

Occurrences(list, x) == Cardinality({i \in 1..Len(list) : list[i] = x})

\* list.remove(x): the list without the first occurrence of x.
ListRemove(list, x) ==
  LET i == CHOOSE j \in 1..Len(list) :
             list[j] = x /\ \A k \in 1..(j - 1) : list[k] # x
  IN  SubSeq(list, 1, i - 1) \o SubSeq(list, i + 1, Len(list))

(***************************************************************************)
(* Frames                                                                  *)
(***************************************************************************)
\* The current state as a frame: no backend call issued yet, nothing raised,
\* and `fail` the positions whose mesh upload the backend refuses during the
\* handler call; `popped` counts the queue entries the call has taken.
Frame(fail) ==
  [world |-> world, shown |-> shown, _shown |-> _shown, sectors |-> sectors,
   queue |-> queue, calls |-> <<>>, raised |-> FALSE,
   fail |-> fail, popped |-> 0]

Cur == Frame({})

Raise(S) == [S EXCEPT !.raised = TRUE]

(***************************************************************************)
(* Model: exposure, queue, show and hide                                   *)
(***************************************************************************)
exposed(S, position) ==
  \E i \in 1..Len(FACES) : Plus(position, FACES[i]) \notin DOMAIN S.world

_enqueue(S, entry) == [S EXCEPT !.queue = Append(@, entry)]

\* _show_block that also queues the deletion of the mesh it has built.
_show_block_requeueing(S, position, texture) ==
  LET S1 == [S EXCEPT !.calls = Append(@, <<"add_indexed", position, texture>>),
                      !.queue = Append(@, <<"_hide_block", position>>)]
  IN  IF position \in S.fail
      THEN S1
      ELSE [S1 EXCEPT !._shown = @ \cup {position}]

\* _show_block without the try: the error of a failed upload propagates.
_show_block_uncaught(S, position, texture) ==
  LET S1 == [S EXCEPT !.calls = Append(@, <<"add_indexed", position, texture>>)]
  IN  IF position \in S.fail
      THEN Raise(S1)
      ELSE [S1 EXCEPT !._shown = @ \cup {position}]

\* batch.add_indexed raises for the positions of S.fail; _show_block catches
\* and prints.  The VertexList handles are opaque: _shown is modelled by its
\* keys, and the calls made on the batch and on the handles are logged.
_show_block(S, position, texture) ==
  LET S1 == [S EXCEPT !.calls = Append(@, <<"add_indexed", position, texture>>)]
  IN  IF position \in S.fail
      THEN S1
      ELSE [S1 EXCEPT !._shown = @ \cup {position}]

show_block(S, position, immediate) ==
  IF S.raised THEN S
  ELSE IF position \notin DOMAIN S.world THEN Raise(S)
  ELSE LET texture == S.world[position]
           S1 == [S EXCEPT !.shown = Put(@, position, texture)]
       IN  IF immediate
           THEN _show_block(S1, position, texture)
           ELSE _enqueue(S1, <<"_show_block", position, texture>>)

_hide_block(S, position) ==
  IF position \in S._shown
  THEN [S EXCEPT !._shown = @ \ {position},
                 !.calls = Append(@, <<"delete", position>>)]
  ELSE S

\* hide_block that pops the position from `shown` without the membership
\* test: a KeyError for a position that is not shown.
hide_block_unguarded(S, position, immediate) ==
  IF S.raised THEN S
  ELSE IF position \notin DOMAIN S.shown THEN Raise(S)
  ELSE LET S1 == [S EXCEPT !.shown = Drop(@, position)]
       IN  IF immediate
           THEN _hide_block(S1, position)
           ELSE _enqueue(S1, <<"_hide_block", position>>)

hide_block(S, position, immediate) ==
  IF S.raised THEN S
  ELSE LET S1 == IF position \in DOMAIN S.shown
                 THEN [S EXCEPT !.shown = Drop(@, position)]
                 ELSE S
       IN  IF immediate
           THEN _hide_block(S1, position)
           ELSE _enqueue(S1, <<"_hide_block", position>>)

(***************************************************************************)
(* Model: the block store                                                  *)
(***************************************************************************)
\* check_neighbors that hides the neighbours that got occluded but never
\* shows the ones that got exposed.
RECURSIVE check_neighbors_hiding(_, _, _)
check_neighbors_hiding(S, position, i) ==
  IF i > Len(FACES) \/ S.raised THEN S
  ELSE LET key == Plus(position, FACES[i])
           S1 == IF key \in DOMAIN S.world /\ ~exposed(S, key)
                    /\ key \in DOMAIN S.shown
                 THEN hide_block(S, key, TRUE)
                 ELSE S
       IN  check_neighbors_hiding(S1, position, i + 1)

RECURSIVE check_neighbors_from(_, _, _)
check_neighbors_from(S, position, i) ==
  IF i > Len(FACES) \/ S.raised THEN S
  ELSE LET key == Plus(position, FACES[i])
           S1 == IF key \notin DOMAIN S.world THEN S
                 ELSE IF exposed(S, key)
                      THEN IF key \notin DOMAIN S.shown
                           THEN show_block(S, key, TRUE)
                           ELSE S
                      ELSE IF key \in DOMAIN S.shown
                           THEN hide_block(S, key, TRUE)
                           ELSE S
       IN  check_neighbors_from(S1, position, i + 1)

\* check_neighbors that looks at no neighbour.
check_neighbors_skipped(S, position) == S

check_neighbors(S, position) == check_neighbors_from(S, position, 1)

\* remove_block whose presence test guards only the deletion: the hide and
\* the neighbour check run for an absent position too.
remove_block_unguarded(S, position, immediate) ==
  LET sector == sectorize(Real(position))
      S2 == IF position \in DOMAIN S.world
            THEN [S EXCEPT !.world = Drop(@, position),
                           !.sectors[sector] = ListRemove(@, position)]
            ELSE S
  IN  IF immediate
      THEN LET S3 == IF position \in DOMAIN S2.shown
                     THEN hide_block(S2, position, TRUE)
                     ELSE S2
           IN  check_neighbors(S3, position)
      ELSE S2

remove_block(S, position, immediate) ==
  IF S.raised \/ position \notin DOMAIN S.world THEN S
  ELSE LET S1 == [S EXCEPT !.world = Drop(@, position)]
           sector == sectorize(Real(position))
       IN  IF sector \notin DOMAIN S1.sectors
              \/ Occurrences(GetList(S1.sectors, sector), position) = 0
           THEN Raise(S1)
           ELSE LET S2 == [S1 EXCEPT !.sectors[sector] = ListRemove(@, position)]
                IN  IF immediate
                    THEN LET S3 == IF position \in DOMAIN S2.shown
                                   THEN hide_block(S2, position, TRUE)
                                   ELSE S2
                         IN  check_neighbors(S3, position)
                    ELSE S2

\* add_block without the removal of the block already at `position`.
add_block_keeping(S, position, texture, immediate) ==
  LET sector == sectorize(Real(position))
      S2 == [S EXCEPT !.world = Put(@, position, texture),
                      !.sectors = Put(@, sector,
                                      Append(GetList(@, sector), position))]
  IN  IF immediate
      THEN LET S3 == IF exposed(S2, position)
                     THEN show_block(S2, position, TRUE)
                     ELSE S2
           IN  check_neighbors(S3, position)
      ELSE _enqueue(S2, <<"_show_block", position, texture>>)

add_block(S, position, texture, immediate) ==
  LET S1 == IF position \in DOMAIN S.world
            THEN remove_block(S, position, immediate)
            ELSE S
      sector == sectorize(Real(position))
      S2 == [S1 EXCEPT !.world = Put(@, position, texture),
                       !.sectors = Put(@, sector,
                                       Append(GetList(@, sector), position))]
  IN  IF S1.raised THEN S1
      ELSE IF immediate
           THEN LET S3 == IF exposed(S2, position)
                          THEN show_block(S2, position, TRUE)
                          ELSE S2
                IN  check_neighbors(S3, position)
           ELSE _enqueue(S2, <<"_show_block", position, texture>>)

(***************************************************************************)
(* Model: world generation                                                 *)
(***************************************************************************)
\* The blocks one pass of the loop of _initialize adds, in order, for the
\* column (x, z) of height h; treeHeight is 0 when no tree is drawn.
ColumnBlocks(x, z, h, treeHeight) ==
  IF h < 4
  THEN << <<(<<x, h, z>>), SAND>> >>
       \o [k \in 1..(4 - h) |-> <<(<<x, h + k - 1, z>>), WATER>>]
  ELSE (IF h < 6 THEN << <<(<<x, h, z>>), SAND>> >> ELSE <<>>)
       \o << <<(<<x, h, z>>), GRASS>> >>
       \o [k \in 1..(h - 1) |-> <<(<<x, h - k, z>>), STONE>>]
       \o (IF h > 6 /\ treeHeight > 0
           THEN [k \in 1..(treeHeight - 1) |-> <<(<<x, h + k, z>>), WOOD>>]
                \o [k \in 1..18 |->
                      <<(<<x - 1 + (((k - 1) \div 2) % 3),
                           h + treeHeight + ((k - 1) % 2),
                           z - 1 + ((k - 1) \div 6)>>), LEAF>>]
           ELSE <<>>)

\* add_block(position, texture, immediate=False) for each block of a list,
\* as long as none raises.
RECURSIVE add_blocks(_, _)
add_blocks(S, blocks) ==
  IF S.raised \/ blocks = <<>> THEN S
  ELSE add_blocks(add_block(S, Head(blocks)[1], Head(blocks)[2], FALSE),
                  Tail(blocks))

_initialize_column(S, x, z, h, treeHeight) ==
  add_blocks(S, ColumnBlocks(x, z, h, treeHeight))

(***************************************************************************)
(* Model: the work queue                                                   *)
(***************************************************************************)
\* _dequeue taking the newest entry (pop) instead of the oldest (popleft).
_dequeue_newest(S) ==
  LET entry == S.queue[Len(S.queue)]
      S1 == [S EXCEPT !.queue = SubSeq(@, 1, Len(@) - 1),
                      !.popped = @ + 1]
  IN  IF entry[1] = "_show_block"
      THEN _show_block(S1, entry[2], entry[3])
      ELSE _hide_block(S1, entry[2])

_dequeue(S) ==
  LET entry == Head(S.queue)
      S1 == [S EXCEPT !.queue = Tail(@), !.popped = @ + 1]
  IN  IF entry[1] = "_show_block"
      THEN _show_block(S1, entry[2], entry[3])
      ELSE _hide_block(S1, entry[2])

\* process_queue that stops one entry early.
RECURSIVE process_queue_lagging(_, _)
process_queue_lagging(S, n) ==
  IF S.queue # <<>> /\ n > 1
  THEN process_queue_lagging(_dequeue(S), n - 1)
  ELSE S

\* process_queue with a clock that lets n entries through: the loop test is
\* made before each entry, and first right after `start` is read.
RECURSIVE process_queue(_, _)
process_queue(S, n) ==
  IF S.queue # <<>> /\ n > 0 THEN process_queue(_dequeue(S), n - 1) ELSE S

\* process_queue that tests the queue and the clock once (`if` for `while`).
process_queue_clock_once(S, costs, elapsed) ==
  IF S.queue # <<>> /\ elapsed < Budget THEN _dequeue(S) ELSE S

\* process_queue with its clock: `elapsed` is time.process_time() - start at
\* the loop test (0 at the first test, start having just been read), and
\* costs[k] is what the clock advances by while the k-th next entry runs.
RECURSIVE process_queue_clock(_, _, _)
process_queue_clock(S, costs, elapsed) ==
  IF S.queue # <<>> /\ elapsed < Budget
  THEN process_queue_clock(_dequeue(S), Tail(costs), elapsed + Head(costs))
  ELSE S

RECURSIVE process_entire_queue(_)
process_entire_queue(S) ==
  IF S.queue # <<>> THEN process_entire_queue(_dequeue(S)) ELSE S

(***************************************************************************)
(* Model: sector streaming                                                 *)
(***************************************************************************)
\* The loop of show_sector showing inline instead of through the queue.
RECURSIVE show_sector_from_inline(_, _, _)
show_sector_from_inline(S, list, i) ==
  IF i > Len(list) \/ S.raised THEN S
  ELSE LET position == list[i]
           S1 == IF position \notin DOMAIN S.shown /\ exposed(S, position)
                 THEN show_block(S, position, TRUE)
                 ELSE S
       IN  show_sector_from_inline(S1, list, i + 1)

RECURSIVE show_sector_from(_, _, _)
show_sector_from(S, list, i) ==
  IF i > Len(list) \/ S.raised THEN S
  ELSE LET position == list[i]
           S1 == IF position \notin DOMAIN S.shown /\ exposed(S, position)
                 THEN show_block(S, position, FALSE)
                 ELSE S
       IN  show_sector_from(S1, list, i + 1)

show_sector(S, sector) == show_sector_from(S, GetList(S.sectors, sector), 1)

RECURSIVE hide_sector_from(_, _, _)
hide_sector_from(S, list, i) ==
  IF i > Len(list) \/ S.raised THEN S
  ELSE LET position == list[i]
           S1 == IF position \in DOMAIN S.shown
                 THEN hide_block(S, position, FALSE)
                 ELSE S
       IN  hide_sector_from(S1, list, i + 1)

hide_sector(S, sector) == hide_sector_from(S, GetList(S.sectors, sector), 1)

\* The offsets (dx, dy, dz) the loops of change_sectors keep.
DiskOffsets ==
  {d \in (-PAD..PAD) \X {0} \X (-PAD..PAD) :
     d[1] * d[1] + d[2] * d[2] + d[3] * d[3] <= (PAD + 1) * (PAD + 1)}

\* The sectors change_sectors collects around `sector` (none around None).
SectorDisk(sector) ==
  IF sector = None THEN {} ELSE {Plus(sector, d) : d \in DiskOffsets}

\* SectorDisk, tabulated once for the sectors the player is moved between.
Disk ==
  [sector \in PlayerSectors \cup StartSectors \cup {None} |->
     SectorDisk(sector)]

\* `for sector in show`: a Python set is walked in an order the language
\* does not specify; the model walks it in one fixed, arbitrary order.  A
\* sector with no bucket has an empty list to walk (sectors.get(sector, [])),
\* so only the sectors that have a bucket are walked.
RECURSIVE show_sectors(_, _)
show_sectors(S, todo) ==
  IF todo = {} THEN S
  ELSE LET sector == CHOOSE s \in todo : TRUE
       IN  show_sectors(show_sector(S, sector), todo \ {sector})

RECURSIVE hide_sectors(_, _)
hide_sectors(S, todo) ==
  IF todo = {} THEN S
  ELSE LET sector == CHOOSE s \in todo : TRUE
       IN  hide_sectors(hide_sector(S, sector), todo \ {sector})

change_sectors(S, before, after) ==
  LET before_set == Disk[before]
      after_set == Disk[after]
      show == after_set \ before_set
      hide == before_set \ after_set
  IN  hide_sectors(show_sectors(S, show \cap DOMAIN S.sectors),
                   hide \cap DOMAIN S.sectors)

(***************************************************************************)
(* Model: the ray caster                                                   *)
(***************************************************************************)
\* The loop of hit_test that never updates previous.
RECURSIVE hit_test_from_stale(_, _, _, _, _)
hit_test_from_stale(S, position, vector, previous, n) ==
  IF n = 0 THEN <<None, None>>
  ELSE LET key == normalize(position)
       IN  IF key # previous /\ key \in DOMAIN S.world
           THEN <<key, previous>>
           ELSE hit_test_from_stale(S,
                                    <<position[1] + vector[1] \div SubSteps,
                                      position[2] + vector[2] \div SubSteps,
                                      position[3] + vector[3] \div SubSteps>>,
                                    vector, previous, n - 1)

\* The loop of hit_test that takes a sample for its own predecessor.
RECURSIVE hit_test_from_eager(_, _, _, _, _)
hit_test_from_eager(S, position, vector, previous, n) ==
  IF n = 0 THEN <<None, None>>
  ELSE LET key == normalize(position)
       IN  IF key # previous /\ key \in DOMAIN S.world
           THEN <<key, key>>
           ELSE hit_test_from_eager(S,
                                    <<position[1] + vector[1] \div SubSteps,
                                      position[2] + vector[2] \div SubSteps,
                                      position[3] + vector[3] \div SubSteps>>,
                                    vector, key, n - 1)

\* The loop of hit_test with n iterations left.
RECURSIVE hit_test_from(_, _, _, _, _)
hit_test_from(S, position, vector, previous, n) ==
  IF n = 0 THEN <<None, None>>
  ELSE LET key == normalize(position)
       IN  IF key # previous /\ key \in DOMAIN S.world
           THEN <<key, previous>>
           ELSE hit_test_from(S,
                              <<position[1] + vector[1] \div SubSteps,
                                position[2] + vector[2] \div SubSteps,
                                position[3] + vector[3] \div SubSteps>>,
                              vector, key, n - 1)

hit_test(S, position, vector, max_distance) ==
  hit_test_from(S, position, vector, None, max_distance * SubSteps)

(***************************************************************************)
(* Window: the tick                                                        *)
(***************************************************************************)
\* update with the budgeted drain put after the streaming.
update_draining_last(S, before, after, n) ==
  LET S1 == IF after # before
            THEN LET S2 == change_sectors(S, before, after)
                 IN  IF before = None THEN process_entire_queue(S2) ELSE S2
            ELSE S
  IN  process_queue(S1, n)

\* What update does to the model when the budget lets n entries through,
\* self.sector is `before` and the player stands in sector `after`: the
\* budgeted drain, then the streaming if the sector has changed, then the
\* full drain if there was no sector yet.
update(S, before, after, n) ==
  LET S1 == process_queue(S, n)
  IN  IF after # before
      THEN LET S2 == change_sectors(S1, before, after)
           IN  IF before = None THEN process_entire_queue(S2) ELSE S2
      ELSE S1

(***************************************************************************)
(* Window: collision resolution                                            *)
(***************************************************************************)
NoContact == [top |-> FALSE, bottom |-> FALSE, right |-> FALSE, left |-> FALSE]

\* The loop over the vertical offsets without its break: the push-back is
\* made for every offset that collides.
RECURSIVE collide_offsets_all(_, _, _, _, _, _, _, _)
collide_offsets_all(S, W, np, face, i, d, k, height) ==
  IF k >= height THEN W
  ELSE LET op == [[np EXCEPT ![2] = @ - k] EXCEPT ![i] = @ + face[i]]
       IN  IF op \notin DOMAIN S.world
           THEN collide_offsets_all(S, W, np, face, i, d, k + 1, height)
           ELSE LET W1 == [W EXCEPT !.p[i] = @ - (d - Padding) * face[i]]
                    W2 == IF face = <<0, -1, 0>>
                          THEN [W1 EXCEPT !.collision_types.top = TRUE,
                                          !.dy = 0]
                          ELSE W1
                    W3 == IF face = <<0, 1, 0>>
                          THEN [W2 EXCEPT !.collision_types.bottom = TRUE,
                                          !.dy = 0]
                          ELSE W2
                IN  collide_offsets_all(S, W3, np, face, i, d, k + 1, height)

\* The loop over the vertical offsets dy = k .. height - 1 of collide for one
\* face; W holds p, collision_types and the vertical velocity self.dy.
RECURSIVE collide_offsets(_, _, _, _, _, _, _, _)
collide_offsets(S, W, np, face, i, d, k, height) ==
  IF k >= height THEN W
  ELSE LET op == [[np EXCEPT ![2] = @ - k] EXCEPT ![i] = @ + face[i]]
       IN  IF op \notin DOMAIN S.world
           THEN collide_offsets(S, W, np, face, i, d, k + 1, height)
           ELSE LET W1 == [W EXCEPT !.p[i] = @ - (d - Padding) * face[i]]
                    W2 == IF face = <<0, -1, 0>>
                          THEN [W1 EXCEPT !.collision_types.top = TRUE,
                                          !.dy = 0]
                          ELSE W1
                IN  IF face = <<0, 1, 0>>
                    THEN [W2 EXCEPT !.collision_types.bottom = TRUE, !.dy = 0]
                    ELSE W2

\* The loop over FACES from face number f on; np is in cells, p fixed-point.
RECURSIVE collide_faces(_, _, _, _, _)
collide_faces(S, W, np, height, f) ==
  IF f > Len(FACES) THEN W
  ELSE LET face == FACES[f]
           i == CHOOSE j \in 1..3 : face[j] # 0
           d == (W.p[i] - np[i] * SubSteps) * face[i]
       IN  CHOOSE R \in {collide_faces(S, W1, np, height, f + 1) :
                            W1 \in {IF d < Padding THEN W
                                     ELSE collide_offsets(S, W, np, face, i, d,
                                                          0, height)}} : TRUE

\* collide that starts from the flags the last call left instead of
\* resetting them.
collide_keeping_flags(S, W, position, height) ==
  collide_faces(S,
                [p |-> position, collision_types |-> W.collision_types,
                 dy |-> W.dy],
                normalize(position), height, 1)

\* collide(position, height) of a window whose collision_types and dy are
\* those of W: the corrected position p, and the window's fields after.
collide(S, W, position, height) ==
  collide_faces(S,
                [p |-> position, collision_types |-> NoContact, dy |-> W.dy],
                normalize(position), height, 1)

\* One motion step of _update for a player that the keys and gravity would
\* displace by `move`: the collision-corrected position.  The contact flags
\* and the vertical velocity do not bear on the corrected position.
_update(S, at, move) ==
  collide(S, [collision_types |-> NoContact, dy |-> 0], Plus(at, move),
          PLAYER_HEIGHT).p

\* The position after the k motion steps that end update.
RECURSIVE motion(_, _, _, _)
motion(S, at, move, k) ==
  IF k = 0 THEN at
  ELSE CHOOSE p \in {motion(S, next, move, k - 1) :
                       next \in {_update(S, at, move)}} : TRUE

(***************************************************************************)
(* Window: the mouse                                                       *)
(***************************************************************************)
\* on_mouse_press that removes whatever the ray hits.
on_mouse_press_any(S, at, vector, button, ctrl, block) ==
  LET found == hit_test(S, at, vector, MAX_DISTANCE)
  IN  IF button = RIGHT \/ (button = LEFT /\ ctrl)
      THEN IF found[2] # None
           THEN add_block(S, found[2], block, TRUE)
           ELSE S
      ELSE IF button = LEFT /\ found[1] # None
           THEN remove_block(S, found[1], TRUE)
           ELSE S

\* What on_mouse_press does to the model when the window captures the
\* mouse: the player stands at `at` and looks along `vector`, `ctrl` says
\* whether the modifiers hold MOD_CTRL, and `block` is self.block.
on_mouse_press(S, at, vector, button, ctrl, block) ==
  LET found == hit_test(S, at, vector, MAX_DISTANCE)
  IN  IF button = RIGHT \/ (button = LEFT /\ ctrl)
      THEN IF found[2] # None
           THEN add_block(S, found[2], block, TRUE)
           ELSE S
      ELSE IF button = LEFT /\ found[1] # None
           THEN IF S.world[found[1]] # STONE
                THEN remove_block(S, found[1], TRUE)
                ELSE S
           ELSE S

(***************************************************************************)
(* State machine                                                           *)
(***************************************************************************)
Init ==
  /\ world = <<>>
  /\ shown = <<>>
  /\ _shown = {}
  /\ sectors = <<>>
  /\ queue = <<>>
  /\ hit = None
  /\ collided = None
  /\ window_sector = None
  /\ window_position = Real(<<16, 30, 16>>)
  /\ exclusive = FALSE
  /\ mark = 0

\* The place of the followed queue entry (0: none, or executed) once `popped`
\* entries have been taken from the front of the queue.
Advance(popped) == IF mark > popped THEN mark - popped ELSE 0

\* The state a handler call leaves; the bound cuts what it may leave queued.
\* The result of an earlier ray cast or collision is gone once the world is
\* worked on.
Leave(S) ==
  /\ world' = S.world
  /\ shown' = S.shown
  /\ _shown' = S._shown
  /\ sectors' = S.sectors
  /\ queue' = S.queue
  /\ hit' = None
  /\ collided' = None
  /\ mark' = Advance(S.popped)
  /\ UNCHANGED <<window_sector, window_position, exclusive>>

Apply(T) == \E S \in {T} : Len(S.queue) <= MaxQueue /\ Leave(S)

AddBlock(p, t, immediate) == Apply(add_block(Cur, p, t, immediate))

RemoveBlock(p, immediate) == Apply(remove_block(Cur, p, immediate))

ShowBlock(p, immediate) == Apply(show_block(Cur, p, immediate))

HideBlock(p, immediate) == Apply(hide_block(Cur, p, immediate))

ShowSector(s) == Apply(show_sector(Cur, s))

HideSector(s) == Apply(hide_sector(Cur, s))

ChangeSectors(before, after) == Apply(change_sectors(Cur, before, after))

\* The clock lets n >= 1 entries through before the budget is used up.
ProcessQueue(n) == queue # <<>> /\ Apply(process_queue(Cur, n))

ProcessEntireQueue == queue # <<>> /\ Apply(process_entire_queue(Cur))

\* A budgeted drain under a clock that advances by costs[k] during entry k.
ProcessQueueClock(costs) ==
  queue # <<>> /\ Apply(process_queue_clock(Cur, costs, 0))

\* The same handlers while the backend refuses the uploads for `fail`.
ShowBlockFailing(p, immediate, fail) ==
  Apply(show_block(Frame(fail), p, immediate))

ProcessQueueFailing(n, fail) ==
  queue # <<>> /\ Apply(process_queue(Frame(fail), n))

ProcessEntireQueueFailing(fail) ==
  queue # <<>> /\ Apply(process_entire_queue(Frame(fail)))

\* One pass of the loop of _initialize, on a column it has not done yet
\* (every pass puts a block at height 3); the queue grows by the blocks of
\* the column.
InitializeColumn(x, z, h, treeHeight) ==
  /\ <<x, 3, z>> \notin DOMAIN world
  /\ \E S \in {_initialize_column(Cur, x, z, h, treeHeight)} : Leave(S)

\* The drains of a queue of any length.
DrainBudgeted(n) ==
  queue # <<>> /\ (\E S \in {process_queue(Cur, n)} : Leave(S))

DrainAll ==
  queue # <<>> /\ (\E S \in {process_entire_queue(Cur)} : Leave(S))

\* A tick: update when the budget lets n entries through, followed by the
\* motion steps of a player that each step would displace by `move`.  The
\* sector is the one of the position the tick finds.  An exception is caught
\* and printed, and leaves self.sector and the position as they were.
Update(n, move) ==
  /\ UNCHANGED <<world, sectors, exclusive>>
  /\ hit' = None
  /\ collided' = None
  /\ \E S \in {update(Cur, window_sector, sectorize(window_position), n)} :
       /\ Len(S.queue) <= MaxQueue
       /\ shown' = S.shown
       /\ _shown' = S._shown
       /\ queue' = S.queue
       /\ mark' = Advance(S.popped)
       /\ window_sector' = IF S.raised THEN window_sector
                            ELSE sectorize(window_position)
       /\ window_position' = IF S.raised THEN window_position
                              ELSE motion(S, window_position, move, Steps)
       /\ window_position' \in Arena

\* Start following the newest queue entry.
Follow ==
  /\ mark = 0
  /\ queue # <<>>
  /\ mark' = Len(queue)
  /\ UNCHANGED <<world, shown, _shown, sectors, queue, hit, collided,
                 window_sector, window_position,
                 exclusive>>

\* A ray cast; `hit` keeps the call and what it returned.
HitTest(position, vector, max_distance) ==
  /\ hit' = <<position, vector, max_distance,
              hit_test(Cur, position, vector, max_distance)>>
  /\ collided' = None
  /\ UNCHANGED <<world, shown, _shown, sectors, queue, window_sector,
                 window_position, exclusive, mark>>

\* A collision resolution by a window with the given contact flags and
\* vertical velocity; `collided` keeps the call and what it left.
Collide(W, position, height) ==
  /\ collided' = <<W, position, height, collide(Cur, W, position, height)>>
  /\ hit' = None
  /\ UNCHANGED <<world, shown, _shown, sectors, queue, window_sector,
                 window_position, exclusive, mark>>

\* A press of a mouse button.  A window that captures the mouse casts the
\* ray and works on the model; `hit` keeps the ray cast.  Any other window
\* starts capturing the mouse.
MousePress(vector, button, ctrl, block) ==
  IF exclusive
  THEN \E S \in {on_mouse_press(Cur, window_position, vector, button, ctrl,
                                 block)} :
         /\ world' = S.world
         /\ shown' = S.shown
         /\ _shown' = S._shown
         /\ sectors' = S.sectors
         /\ queue' = S.queue
         /\ hit' = <<window_position, vector, MAX_DISTANCE,
                     hit_test(Cur, window_position, vector, MAX_DISTANCE)>>
         /\ collided' = None
         /\ mark' = Advance(S.popped)
         /\ UNCHANGED <<window_sector, window_position, exclusive>>
  ELSE /\ exclusive' = TRUE
       /\ UNCHANGED <<world, shown, _shown, sectors, queue, hit, collided,
                      window_sector, window_position, mark>>

\* The ESCAPE key: the window lets go of the mouse.
Escape ==
  /\ exclusive' = FALSE
  /\ UNCHANGED <<world, shown, _shown, sectors, queue, hit, collided,
                 window_sector, window_position, mark>>

\* Every operation of Model, on the queue scenarios' positions.
Next ==
  \/ \E p \in QueuePositions, t \in Materials, i \in BOOLEAN : AddBlock(p, t, i)
  \/ \E p \in QueuePositions, i \in BOOLEAN : RemoveBlock(p, i)
  \/ \E p \in QueuePositions, i \in BOOLEAN : ShowBlock(p, i)
  \/ \E p \in QueuePositions, i \in BOOLEAN : HideBlock(p, i)
  \/ \E s \in {sectorize(Real(p)) : p \in QueuePositions} : ShowSector(s)
  \/ \E s \in {sectorize(Real(p)) : p \in QueuePositions} : HideSector(s)
  \/ \E b \in PlayerSectors \cup {None}, a \in PlayerSectors : ChangeSectors(b, a)
  \/ \E n \in 1..MaxQueue : ProcessQueue(n)
  \/ ProcessEntireQueue

Spec == Init /\ [][Next]_vars

\* The block store: add and remove in both modes, any material.
NextStore ==
  \/ \E p \in StorePositions, t \in Materials, i \in BOOLEAN : AddBlock(p, t, i)
  \/ \E p \in StorePositions, i \in BOOLEAN : RemoveBlock(p, i)

SpecStore == Init /\ [][NextStore]_vars

\* A cell and its six neighbours: immediate add and remove, and removes in
\* deferred mode.
NextCross ==
  \/ \E p \in Positions : AddBlock(p, BRICK, TRUE)
  \/ \E p \in Positions, i \in BOOLEAN : RemoveBlock(p, i)

SpecCross == Init /\ [][NextCross]_vars

\* A cell and its six neighbours: immediate add and remove, while sector
\* (-1,0,0) is streamed out and in and the queue is drained.
NextRound ==
  \/ \E p \in Positions : AddBlock(p, BRICK, TRUE)
  \/ \E p \in Positions : RemoveBlock(p, TRUE)
  \/ ShowSector(<<-1, 0, 0>>)
  \/ HideSector(<<-1, 0, 0>>)
  \/ ProcessEntireQueue

SpecRound == Init /\ [][NextRound]_vars

\* A cell and its six neighbours, built up and taken down by immediate adds
\* and removes only; the centre takes either material.
NextImmediate ==
  \/ \E p \in Positions : AddBlock(p, BRICK, TRUE)
  \/ \E p \in {<<0, 0, 0>>} : AddBlock(p, STONE, TRUE)
  \/ \E p \in Positions : RemoveBlock(p, TRUE)

SpecImmediate == Init /\ [][NextImmediate]_vars

\* Ray casts through worlds built by immediate adds and removes.
NextHit ==
  \/ \E p \in HitPositions : AddBlock(p, STONE, TRUE)
  \/ \E p \in HitPositions : RemoveBlock(p, TRUE)
  \/ \E o \in Origins, v \in Vectors, d \in Distances : HitTest(o, v, d)

SpecHit == Init /\ [][NextHit]_vars

\* The clocks of a budgeted drain: a cost for each entry it may run.
Clocks == [1..(MaxQueue + 1) -> Costs]

\* The work queue: deferred shows and hides of blocks put by immediate adds,
\* drained under a clock or entirely.
NextDrain ==
  \/ \E p \in QueuePositions : AddBlock(p, STONE, TRUE)
  \/ \E p \in QueuePositions : ShowBlock(p, FALSE)
  \/ \E p \in QueuePositions : HideBlock(p, FALSE)
  \/ \E costs \in Clocks : ProcessQueueClock(costs)
  \/ ProcessEntireQueue

SpecDrain == Init /\ [][NextDrain]_vars

\* Shows, inline and queued, with a backend that may refuse uploads; the
\* blocks are put by immediate adds that upload.
NextFail ==
  \/ \E p \in QueuePositions : AddBlock(p, STONE, TRUE)
  \/ \E p \in QueuePositions, i \in BOOLEAN, fail \in SUBSET QueuePositions :
       ShowBlockFailing(p, i, fail)
  \/ \E p \in QueuePositions, i \in BOOLEAN : HideBlock(p, i)
  \/ \E n \in 1..MaxQueue, fail \in SUBSET QueuePositions :
       ProcessQueueFailing(n, fail)
  \/ \E fail \in SUBSET QueuePositions : ProcessEntireQueueFailing(fail)

SpecFail == Init /\ [][NextFail]_vars

\* World generation, column by column, and the drains of what it queued.
NextInit ==
  \/ \E c \in Passes : InitializeColumn(c[1], c[2], c[3], c[4])
  \/ \E n \in 1..MaxQueue : DrainBudgeted(n)
  \/ DrainAll

SpecInit == Init /\ [][NextInit]_vars

\* Ticks, while blocks are put and shown and hidden in deferred mode.
Tick == \E n \in 1..MaxQueue, move \in Walks : Update(n, move)

NextLive ==
  \/ \E i \in BOOLEAN : AddBlock(FarBlock, STONE, i)
  \/ ShowBlock(FarBlock, FALSE)
  \/ HideBlock(FarBlock, FALSE)
  \/ Follow
  \/ Tick

\* Ticks keep occurring.
SpecLive == Init /\ [][NextLive]_vars /\ WF_vars(Tick)

\* A tick of a falling player.
Fall == \E n \in 1..MaxQueue, move \in Falls : Update(n, move)

\* The ticks of a player that walks across the border of its sector, with a
\* far block to stream and a floor to fall on.
NextTick ==
  \/ \E i \in BOOLEAN : AddBlock(FarBlock, STONE, i)
  \/ \E p \in {FloorBlock} : AddBlock(p, STONE, TRUE)
  \/ \E p \in {FloorBlock} : RemoveBlock(p, TRUE)
  \/ Tick
  \/ Fall

SpecTick == Init /\ [][NextTick]_vars

\* A press with any button, modifier and held material, along a sight.
Press ==
  \E vector \in Sights, button \in {LEFT, RIGHT, MIDDLE}, ctrl \in BOOLEAN,
     block \in Held :
    MousePress(vector, button, ctrl, block)

\* The player clicks at STONE blocks put ahead of and under the start, and
\* at what the clicks have placed, walking between the clicks.
NextMouse ==
  \/ \E p \in MouseBlocks : AddBlock(p, STONE, TRUE)
  \/ Press
  \/ Escape
  \/ Tick

SpecMouse == Init /\ [][NextMouse]_vars

\* The windows a collision may start from: no flag or the vertical flags
\* left set by an earlier call, falling or rising.
Windows ==
  {[collision_types |-> [NoContact EXCEPT !.top = t, !.bottom = t], dy |-> v] :
     t \in BOOLEAN, v \in Velocities}

\* Collisions in worlds built by immediate adds and removes.
NextCollide ==
  \/ \E p \in CollidePositions : AddBlock(p, STONE, TRUE)
  \/ \E p \in CollidePositions : RemoveBlock(p, TRUE)
  \/ \E W \in Windows, position \in Desired, height \in Heights :
       Collide(W, position, height)

SpecCollide == Init /\ [][NextCollide]_vars

(***************************************************************************)
(* Properties                                                              *)
(***************************************************************************)
\* The sector of a block position as the data model states it.
HomeSector(p) == <<p[1] \div 16, 0, p[3] \div 16>>

\* C1: the sector index is exactly in sync with the world: a position is in
\* the world iff it occurs in the bucket of its sector (floor division by 16
\* on x and z), it occurs there once and in no other bucket, and no bucket
\* holds anything else; and right after add(p, m), in either mode and also on
\* an occupied position, World[p] = m and p occurs once in its bucket.
C1_SectorIndexInSync ==
  /\ \A p \in Positions \cup DOMAIN world :
       \A s \in DOMAIN sectors \cup {HomeSector(p)} :
         Occurrences(GetList(sectors, s), p)
           = IF s = HomeSector(p) /\ p \in DOMAIN world THEN 1 ELSE 0
  /\ \A s \in DOMAIN sectors :
       \A i \in 1..Len(sectors[s]) : sectors[s][i] \in DOMAIN world
  /\ \A p \in Positions, m \in Materials, i \in BOOLEAN :
       LET S1 == add_block(Cur, p, m, i)
       IN  /\ ~S1.raised
           /\ p \in DOMAIN S1.world
           /\ S1.world[p] = m
           /\ Occurrences(GetList(S1.sectors, HomeSector(p)), p) = 1

\* C1's case: blocks at a negative coordinate and in a shared bucket, after
\* a deferred add has replaced the material of an occupied position.
C1_Witness ==
  /\ DOMAIN world = StorePositions
  /\ world[<<-1, 0, 0>>] = STONE
  /\ queue = << <<"_show_block", <<-1, 0, 0>>, BRICK>>,
                <<"_show_block", <<-1, 0, 0>>, STONE>> >>
  /\ sectors[<<-1, 0, 0>>] = << <<-1, 0, 0>> >>
  /\ sectors[<<0, 0, 0>>] = << <<0, 0, 1>>, <<0, 0, 0>> >>

\* C2: whenever the work queue is empty (no mesh upload fails in these
\* runs), the rendered positions are the shown positions.
C2_RenderedIsShownWhenDrained ==
  queue = <<>> => _shown = DOMAIN shown

\* C3: after remove(p) on a present position, in either mode, and once the
\* entries then pending are drained, p is absent from the world, from its
\* sector bucket, from the shown set and from the rendered set.
C3_RemovedBlockIsGone ==
  \A p \in DOMAIN world, i \in BOOLEAN :
    LET S1 == process_entire_queue(remove_block(Cur, p, i))
    IN  /\ ~S1.raised
        /\ p \notin DOMAIN S1.world
        /\ Occurrences(GetList(S1.sectors, HomeSector(p)), p) = 0
        /\ p \notin DOMAIN S1.shown
        /\ p \notin S1._shown

\* C4: every shown position is a position of the world.
C4_ShownSubsetOfWorld == DOMAIN shown \subseteq DOMAIN world

\* The 6 axis-aligned neighbours of a position.
Neighbours(p) ==
  {<<p[1] + 1, p[2], p[3]>>, <<p[1] - 1, p[2], p[3]>>,
   <<p[1], p[2] + 1, p[3]>>, <<p[1], p[2] - 1, p[3]>>,
   <<p[1], p[2], p[3] + 1>>, <<p[1], p[2], p[3] - 1>>}

\* A block is exposed in world w iff one of its 6 neighbours is absent.
IsExposed(w, p) == \E n \in Neighbours(p) : n \notin DOMAIN w

\* In frame S, every neighbour of p that is in the world is shown iff exposed.
NeighboursSettled(S, p) ==
  \A q \in Neighbours(p) \cap DOMAIN S.world :
    q \in DOMAIN S.shown <=> IsExposed(S.world, q)

\* C5: after a non-deferred add(p, m) or remove(p), each neighbour of p that
\* is in the world is shown iff it is exposed, and after the add p itself is
\* shown iff it is exposed.
C5_NeighboursShownIffExposed ==
  \A p \in Positions :
    /\ LET S1 == add_block(Cur, p, BRICK, TRUE)
       IN  /\ NeighboursSettled(S1, p)
           /\ p \in DOMAIN S1.shown <=> IsExposed(S1.world, p)
    /\ p \in DOMAIN world => NeighboursSettled(remove_block(Cur, p, TRUE), p)

\* Whether p has a live mesh just before queue entry i runs, read off the
\* queue: the latest earlier entry for p decides, else the rendered set.
RenderedBefore(i, p) ==
  LET J == {j \in 1..(i - 1) : queue[j][2] = p}
  IN  IF J = {} THEN p \in _shown
      ELSE queue[CHOOSE j \in J : \A k \in J : k <= j][1] = "_show_block"

\* The backend calls of the first n queue entries, in queue order: an upload
\* for every show entry, a delete for every hide entry that finds a mesh.
RECURSIVE ExpectedCalls(_)
ExpectedCalls(n) ==
  IF n = 0 THEN <<>>
  ELSE LET e == queue[n]
       IN  IF e[1] = "_show_block"
           THEN Append(ExpectedCalls(n - 1), <<"add_indexed", e[2], e[3]>>)
           ELSE IF RenderedBefore(n, e[2])
                THEN Append(ExpectedCalls(n - 1), <<"delete", e[2]>>)
                ELSE ExpectedCalls(n - 1)

\* C6: queue entries run strictly in the order enqueued, none dropped or
\* merged: a drain of n entries issues exactly the backend calls of the
\* oldest n entries in queue order and keeps the rest in order; after it a
\* position is rendered iff the last executed entry for it was a show.
C6_DrainKeepsQueueOrder ==
  /\ \A n \in 0..Len(queue) :
       LET S1 == process_queue(Cur, n)
       IN  /\ S1.calls = ExpectedCalls(n)
           /\ S1.queue = SubSeq(queue, n + 1, Len(queue))
           /\ \A p \in Positions : p \in S1._shown <=> RenderedBefore(n + 1, p)
  /\ LET S2 == process_entire_queue(Cur)
     IN  /\ S2.calls = ExpectedCalls(Len(queue))
         /\ S2.queue = <<>>
         /\ \A p \in Positions :
              p \in S2._shown <=> RenderedBefore(Len(queue) + 1, p)

\* C6's case: a deferred show and a deferred hide of the same position were
\* queued in that order and a budgeted drain has run the show only.
C6_Witness ==
  /\ queue = << <<"_hide_block", <<0, 0, 0>> >> >>
  /\ <<0, 0, 0>> \in _shown
  /\ <<0, 0, 0>> \notin DOMAIN shown
  /\ <<0, 0, 0>> \in DOMAIN world

\* Every field of the model a handler call can change, and its error flag.
SameModel(S1, S2) ==
  /\ S1.world = S2.world
  /\ S1.shown = S2.shown
  /\ S1._shown = S2._shown
  /\ S1.sectors = S2.sectors
  /\ S1.queue = S2.queue
  /\ S1.calls = S2.calls
  /\ S1.raised = S2.raised

\* C8: remove(p) on a position that is not in the world changes nothing,
\* calls nothing and raises nothing, in either mode; so a second remove(p)
\* right after a first leaves the state of the first.
C8_RemoveAbsentIsNoOp ==
  \A p \in Positions, i \in BOOLEAN :
    /\ p \notin DOMAIN world =>
         /\ SameModel(remove_block(Cur, p, i), Cur)
         /\ ~remove_block(Cur, p, i).raised
    /\ \A j \in BOOLEAN :
         LET S1 == remove_block(Cur, p, i)
         IN  ~S1.raised /\ SameModel(remove_block(S1, p, j), S1)

\* C8's case: a position that is not in the world but still shown, rendered
\* and waiting in the queue, where a remove has nothing to do.
C8_Witness ==
  /\ <<0, 0, 0>> \notin DOMAIN world
  /\ <<0, 0, 0>> \in DOMAIN shown
  /\ <<0, 0, 0>> \in _shown
  /\ <<-1, 0, 0>> \in DOMAIN world
  /\ <<-1, 0, 0>> \notin DOMAIN shown
  /\ queue # <<>>

\* The frame after a non-deferred add(p, m) followed by a non-deferred
\* remove(p).
RoundTrip(p, m) == remove_block(add_block(Cur, p, m, TRUE), p, TRUE)

\* The sector index of frame S holds what the current one holds (a bucket
\* that was created and is empty holds what a missing bucket holds).
SameBuckets(S) ==
  \A s \in DOMAIN S.sectors \cup DOMAIN sectors :
    GetList(S.sectors, s) = GetList(sectors, s)

\* C7 as stated: for p not in the world, a non-deferred add(p, m) followed
\* by a non-deferred remove(p) leaves the world, the sector index and the
\* shown set as they were.
C7_RoundTripIsNoOp ==
  \A p \in Positions \ DOMAIN world, m \in Materials :
    LET S2 == RoundTrip(p, m)
    IN  /\ S2.world = world
        /\ SameBuckets(S2)
        /\ DOMAIN S2.shown = DOMAIN shown

\* C7 as amended: the round trip leaves the world and the sector index as
\* they were; afterwards p is not shown, every world neighbour of p is shown
\* iff exposed and every other position keeps its shown status; so the
\* shown set is as before whenever, before the add, p was not shown and
\* every world neighbour of p was shown iff exposed.
C7_RoundTripRestores ==
  \A p \in Positions \ DOMAIN world, m \in Materials :
    LET S2 == RoundTrip(p, m)
    IN  /\ ~S2.raised
        /\ S2.world = world
        /\ SameBuckets(S2)
        /\ p \notin DOMAIN S2.shown
        /\ NeighboursSettled(S2, p)
        /\ \A q \in (Positions \cup DOMAIN shown) \ ({p} \cup Neighbours(p)) :
             q \in DOMAIN S2.shown <=> q \in DOMAIN shown
        /\ (p \notin DOMAIN shown /\ NeighboursSettled(Cur, p)) =>
             DOMAIN S2.shown = DOMAIN shown

\* C7's case: the cell (0,0,0) is shown and only open towards (0,0,1); the
\* add of a round trip at (0,0,1) hides it and the remove shows it again.
C7_Witness ==
  /\ DOMAIN world = Positions \ {<<0, 0, 1>>}
  /\ DOMAIN shown = DOMAIN world
  /\ <<0, 0, 0>> \notin DOMAIN add_block(Cur, <<0, 0, 1>>, BRICK, TRUE).shown
  /\ DOMAIN RoundTrip(<<0, 0, 1>>, BRICK).shown = DOMAIN shown

\* The disk of sectors around sector s as the streaming scheduler is
\* specified: offsets dx, dz in -4..4 with dx^2 + dz^2 <= 25, layer y = 0.
StatedDisk(s) ==
  IF s = None THEN {}
  ELSE {<<s[1] + d[1], 0, s[3] + d[2]>> :
          d \in {e \in (-4..4) \X (-4..4) : e[1] * e[1] + e[2] * e[2] <= 25}}

\* StatedDisk for the sectors the player is moved between.
StatedDisks == [s \in PlayerSectors \cup {None} |-> StatedDisk(s)]

\* C9: change_sectors(previous, current) shows exactly the sectors of
\* disk(current) \ disk(previous) and hides exactly those of disk(previous)
\* \ disk(current): afterwards every exposed world position of a to-show
\* sector is shown, no position of a to-hide sector is shown, positions of
\* all other sectors keep their shown status, and from None nothing is
\* hidden.
C9_ChangeSectorsStreamsDisks ==
  \A b \in PlayerSectors \cup {None}, a \in PlayerSectors :
    LET S1 == change_sectors(Cur, b, a)
        toShow == StatedDisks[a] \ StatedDisks[b]
        toHide == StatedDisks[b] \ StatedDisks[a]
    IN  /\ ~S1.raised
        /\ S1.world = world /\ S1.sectors = sectors
        /\ \A p \in Positions :
             /\ (HomeSector(p) \in toShow /\ p \in DOMAIN world
                   /\ IsExposed(world, p)) => p \in DOMAIN S1.shown
             /\ HomeSector(p) \in toHide => p \notin DOMAIN S1.shown
             /\ HomeSector(p) \notin toShow \cup toHide =>
                  (p \in DOMAIN S1.shown <=> p \in DOMAIN shown)
        /\ b = None => DOMAIN shown \subseteq DOMAIN S1.shown

\* The rounded position of sample k of the ray from origin along direction:
\* origin + k * direction / 8.
SampleKey(origin, direction, k) ==
  normalize(<<origin[1] + k * (direction[1] \div SubSteps),
              origin[2] + k * (direction[2] \div SubSteps),
              origin[3] + k * (direction[3] \div SubSteps)>>)

\* The result the claim states: the first sample whose rounded position is
\* in world w and differs from the one of the sample before it (sample 0 has
\* no sample before it), with the rounded position of the sample before it.
FirstHit(w, origin, direction, max_distance) ==
  LET K == {k \in 0..(max_distance * SubSteps - 1) :
              /\ SampleKey(origin, direction, k) \in DOMAIN w
              /\ k > 0 => SampleKey(origin, direction, k)
                             # SampleKey(origin, direction, k - 1)}
  IN  IF K = {} THEN <<None, None>>
      ELSE LET k == CHOOSE i \in K : \A j \in K : i <= j
           IN  <<SampleKey(origin, direction, k),
                 IF k = 0 THEN None ELSE SampleKey(origin, direction, k - 1)>>

\* C10: hit_test returns the first sample, in order, whose rounded position
\* differs from the one of the previous sample and is in the world, with the
\* rounded position of the previous sample, or (None, None) if there is no
\* such sample; with only a STONE block at (0,0,0) in the world, the ray from
\* (0,0,5) along (0,0,-1) returns ((0,0,0), (0,0,1)).
C10_HitTestFirstChangedSample ==
  /\ hit # None => hit[4] = FirstHit(world, hit[1], hit[2], hit[3])
  /\ world = (<<0, 0, 0>> :> STONE) =>
       hit_test(Cur, <<0, 0, 40>>, <<0, 0, -8>>, MAX_DISTANCE)
         = <<(<<0, 0, 0>>), (<<0, 0, 1>>)>>

\* C10's scenario: the ray from (0,0,5) along (0,0,-1) was cast in the world
\* that only holds a STONE block at (0,0,0), and hit it from (0,0,1).
C10_Witness ==
  /\ world = (<<0, 0, 0>> :> STONE)
  /\ hit = <<(<<0, 0, 40>>), (<<0, 0, -8>>), MAX_DISTANCE,
             <<(<<0, 0, 0>>), (<<0, 0, 1>>)>>>>

\* C10's other cases: a ray that starts inside a block, a ray that finds
\* nothing within range.
C10_WitnessInside ==
  /\ hit # None /\ hit[4][1] # None /\ hit[4][2] = None

C10_WitnessMiss ==
  /\ hit # None /\ hit[4] = <<None, None>> /\ world # <<>>
\* C11: with only a block at (0,0,0) in the world, resolving the desired
\* position (0, 0.5, 0) for an entity of height 2 reports top, returns
\* y = 0.75 with x and z as asked, and leaves the vertical velocity 0.
C11_LandingScenario ==
  (/\ DOMAIN world = {<<0, 0, 0>>}
   /\ collided # None
   /\ collided[2] = <<0, 4, 0>>
   /\ collided[3] = 2)
  => /\ collided[4].collision_types.top
     /\ collided[4].p = <<0, 6, 0>>
     /\ collided[4].dy = 0
\* C12: a full drain terminates with the queue empty after running exactly
\* the entries that were queued, because running one entry never appends to
\* the queue (it only takes the entry it runs off it).
C12_DrainAllEmptiesQueue ==
  /\ process_entire_queue(Cur).queue = <<>>
  /\ process_entire_queue(Cur).popped = Len(queue)
  /\ queue # <<>> => _dequeue(Cur).queue = Tail(queue)

\* C12's case: a full queue holding a show and a hide, which the full drain
\* works off with backend calls.
C12_Witness ==
  /\ Len(queue) = MaxQueue
  /\ \E i, j \in 1..Len(queue) :
       queue[i][1] = "_show_block" /\ queue[j][1] = "_hide_block"
  /\ Len(process_entire_queue(Cur).calls) >= 2

\* The clock reading after the first k entries of a drain have run.
RECURSIVE Elapsed(_, _)
Elapsed(costs, k) == IF k = 0 THEN 0 ELSE Elapsed(costs, k - 1) + costs[k]

\* C13: under any clock a budgeted drain runs a prefix of the queue in FIFO
\* order, each entry whole; every entry it runs was started with the budget
\* not yet used up (the test is made between entries only, so the last one
\* may overrun); it returns with entries left only if the elapsed time has
\* reached the budget, and the entries left are the rest of the queue in the
\* original order.
C13_BudgetedDrainRunsPrefix ==
  \A costs \in Clocks :
    LET S1 == process_queue_clock(Cur, costs, 0)
        n == S1.popped
    IN  /\ n <= Len(queue)
        /\ S1.calls = ExpectedCalls(n)
        /\ S1.queue = SubSeq(queue, n + 1, Len(queue))
        /\ \A k \in 1..n : Elapsed(costs, k - 1) < Budget
        /\ S1.queue # <<>> => Elapsed(costs, n) >= Budget
        /\ SameModel(S1, process_queue(Cur, n))

\* C13's case: the first of two queued entries overruns the budget, so the
\* drain returns with the second entry left for the next tick.
C13_Witness ==
  /\ Len(queue) = 2
  /\ process_queue_clock(Cur, [k \in 1..(MaxQueue + 1) |-> 3], 0).queue
       = Tail(queue)
  /\ process_queue_clock(Cur, [k \in 1..(MaxQueue + 1) |-> 1], 0).queue
       = <<>>
\* C14 as stated: hide(p) on a position that is not shown leaves the world,
\* the sector index, the shown set, the rendered set and the queue as they
\* are and raises nothing, in either mode.
C14_HideUnshownIsNoOp ==
  \A p \in QueuePositions, immediate \in BOOLEAN :
    p \notin DOMAIN shown =>
      LET S1 == hide_block(Cur, p, immediate)
      IN  /\ ~S1.raised
          /\ S1.world = world /\ S1.sectors = sectors /\ S1.shown = shown
          /\ S1._shown = _shown
          /\ S1.queue = queue

\* C14 as amended: hide(p) on a position that is not shown raises nothing and
\* leaves the world, the sector index and the shown set as they are; when
\* immediate it leaves the queue as it is and deletes the mesh of p if there
\* is one (the rendered set loses p, and nothing else); when deferred it
\* calls nothing, leaves the rendered set as it is and appends one hide
\* entry for p to the queue.
C14_HideUnshownKeepsStore ==
  \A p \in QueuePositions, immediate \in BOOLEAN :
    p \notin DOMAIN shown =>
      LET S1 == hide_block(Cur, p, immediate)
      IN  /\ ~S1.raised
          /\ S1.world = world /\ S1.sectors = sectors /\ S1.shown = shown
          /\ immediate =>
               /\ S1.queue = queue
               /\ S1._shown = _shown \ {p}
               /\ S1.calls = IF p \in _shown THEN << <<"delete", p>> >>
                                              ELSE <<>>
          /\ ~immediate =>
               /\ S1.queue = Append(queue, <<"_hide_block", p>>)
               /\ S1._shown = _shown
               /\ S1.calls = <<>>

\* C14's case: (-1,0,0) is not shown (a deferred hide took it out) but still
\* rendered, its hide entry waiting in the queue.
C14_Witness ==
  /\ <<-1, 0, 0>> \in DOMAIN world
  /\ <<-1, 0, 0>> \notin DOMAIN shown
  /\ <<-1, 0, 0>> \in _shown
  /\ queue = << <<"_hide_block", <<-1, 0, 0>> >> >>
\* The calls of a log that are uploads, and those about positions not in F.
Uploads(calls) == SelectSeq(calls, LAMBDA c : c[1] = "add_indexed")

CallsOutside(calls, F) == SelectSeq(calls, LAMBDA c : c[2] \notin F)

\* The uploads the first n queue entries ask for, in queue order.
ShowEntries(n) ==
  [k \in 1..Len(SelectSeq(SubSeq(queue, 1, n),
                          LAMBDA e : e[1] = "_show_block")) |->
     LET e == SelectSeq(SubSeq(queue, 1, n),
                        LAMBDA x : x[1] = "_show_block")[k]
     IN  <<"add_indexed", e[2], e[3]>>]

\* What a drain S1 made while the uploads for F fail must share with the
\* same drain S0 without failures: nothing propagates, the store and the
\* shown set are untouched, the same entries are taken, every upload is
\* attempted in queue order, the positions outside F see the same calls and
\* end up rendered or not as without failures, and no position of F gains a
\* mesh.
DrainSurvives(S1, S0, F) ==
  /\ ~S1.raised
  /\ S1.world = world /\ S1.sectors = sectors /\ S1.shown = shown
  /\ S1.queue = S0.queue /\ S1.popped = S0.popped
  /\ Uploads(S1.calls) = ShowEntries(S1.popped)
  /\ CallsOutside(S1.calls, F) = CallsOutside(S0.calls, F)
  /\ \A q \in QueuePositions \ F : q \in S1._shown <=> q \in S0._shown
  /\ \A p \in F : p \in S1._shown => p \in _shown

\* C15: when the upload for p fails while a show for p runs, inline or from
\* the queue, nothing propagates, p stays shown and gains no mesh, the world
\* and the sector index are untouched, and the remaining queue entries are
\* still run in order.
C15_UploadFailureIsContained ==
  \A F \in SUBSET QueuePositions :
    /\ \A p \in F \cap DOMAIN world :
         LET S1 == show_block(Frame(F), p, TRUE)
         IN  /\ ~S1.raised
             /\ p \in DOMAIN S1.shown
             /\ S1._shown = _shown
             /\ S1.world = world /\ S1.sectors = sectors
             /\ S1.queue = queue
    /\ DrainSurvives(process_entire_queue(Frame(F)),
                     process_entire_queue(Cur), F)
    /\ process_entire_queue(Frame(F)).queue = <<>>
    /\ \A n \in 0..Len(queue) :
         DrainSurvives(process_queue(Frame(F), n), process_queue(Cur, n), F)

\* C15's case: (0,0,0) is shown and has no mesh although nothing is queued:
\* the upload of its show has failed.
C15_Witness ==
  /\ <<0, 0, 0>> \in DOMAIN shown
  /\ <<0, 0, 0>> \notin _shown
  /\ <<-1, 0, 0>> \in _shown
  /\ queue = <<>>
\* Whether position p has a live mesh after the first k calls of a log made
\* from the current state, where the rendered positions have one.
RECURSIVE LiveAfter(_, _, _)
LiveAfter(calls, k, p) ==
  IF k = 0 THEN p \in _shown
  ELSE IF calls[k][2] = p THEN calls[k][1] = "add_indexed"
       ELSE LiveAfter(calls, k - 1, p)

\* C16: the backend holds at most one live mesh for a position: a drain of
\* what the operations (world generation included) have queued never
\* uploads a mesh for a position that has a live one without deleting that
\* one first.
C16_OneLiveMeshPerPosition ==
  LET calls == process_entire_queue(Cur).calls
  IN  \A i \in 1..Len(calls) :
        calls[i][1] = "add_indexed" => ~LiveAfter(calls, i - 1, calls[i][2])
\* Whether world w has a block next to `cell` in direction `face`, at the
\* level of the cell or at one of the height - 1 levels below it.
Blocked(w, cell, face, height) ==
  \E k \in 0..(height - 1) :
    <<cell[1] + face[1], cell[2] + face[2] - k, cell[3] + face[3]>>
      \in DOMAIN w

\* The push-back the claim states for direction number f on position p.
PushBack(w, p, cell, height, f) ==
  LET face == FACES[f]
      axis == CHOOSE j \in 1..3 : face[j] # 0
      d == (p[axis] - cell[axis] * SubSteps) * face[axis]
  IN  IF d >= Padding /\ Blocked(w, cell, face, height)
      THEN [p EXCEPT ![axis] = cell[axis] * SubSteps + Padding * face[axis]]
      ELSE p

\* The position after the push-backs of the first n directions, in order.
RECURSIVE PushedBack(_, _, _, _, _)
PushedBack(w, p, cell, height, n) ==
  IF n = 0 THEN p
  ELSE PushBack(w, PushedBack(w, p, cell, height, n - 1), cell, height, n)

\* C17: collide corrects the coordinate of a direction iff d >= 0.25 and the
\* world has a block next to the cell of the desired position in that
\* direction at one of the `height` levels; the correction is made once and
\* puts the coordinate at cell + 0.25 * sign, leaving the other two alone;
\* with no such block in any direction the desired position is returned.
C17_PushBack ==
  collided # None =>
    LET position == collided[2]
        height == collided[3]
        cell == normalize(position)
    IN  /\ collided[4].p = PushedBack(world, position, cell, height, Len(FACES))
        /\ (\A f \in 1..Len(FACES) : ~Blocked(world, cell, FACES[f], height))
             => collided[4].p = position
        /\ \A axis \in 1..3 :
             \/ collided[4].p[axis] = position[axis]
             \/ \E f \in 1..Len(FACES) :
                  /\ FACES[f][axis] # 0
                  /\ Blocked(world, cell, FACES[f], height)
                  /\ (position[axis] - cell[axis] * SubSteps) * FACES[f][axis]
                       >= Padding
                  /\ collided[4].p[axis]
                       = cell[axis] * SubSteps + Padding * FACES[f][axis]

\* C17's case: an entity of height 2 asks for (0.375, 1, 0) next to a wall
\* of two blocks, both of which collide, and is put at x = 0.25.
C17_Witness ==
  /\ {<<1, 1, 0>>, <<1, 0, 0>>} \subseteq DOMAIN world
  /\ collided # None
  /\ collided[2] = <<3, 8, 0>>
  /\ collided[3] = 2
  /\ collided[4].p = <<2, 8, 0>>
\* Whether the call recorded in `collided` pushed back in direction `face`.
Pushed(face) ==
  LET position == collided[2]
      cell == normalize(position)
      axis == CHOOSE j \in 1..3 : face[j] # 0
  IN  /\ (position[axis] - cell[axis] * SubSteps) * face[axis] >= Padding
      /\ Blocked(world, cell, face, collided[3])

\* The flags the claim states: whatever they were before the call, top iff
\* the downward face pushed back, bottom iff the upward face did, left and
\* right never.
StatedFlags ==
  /\ collided[4].collision_types.top <=> Pushed(<<0, -1, 0>>)
  /\ collided[4].collision_types.bottom <=> Pushed(<<0, 1, 0>>)
  /\ ~collided[4].collision_types.left
  /\ ~collided[4].collision_types.right

\* C18 as stated: collide resets the flags, sets top iff the downward face
\* pushed back and bottom iff the upward face did, never sets left or right,
\* and sets the vertical velocity to 0 when it records a top contact and
\* leaves it alone otherwise.
C18_FlagsAndTopStopsVelocity ==
  collided # None =>
    /\ StatedFlags
    /\ collided[4].dy = IF collided[4].collision_types.top
                        THEN 0 ELSE collided[1].dy

\* C18 as amended: the same flags, and the vertical velocity is set to 0 when
\* a top or a bottom contact is recorded and left alone otherwise.
C18_FlagsAndContactStopsVelocity ==
  collided # None =>
    /\ StatedFlags
    /\ collided[4].dy = IF \/ collided[4].collision_types.top
                           \/ collided[4].collision_types.bottom
                        THEN 0 ELSE collided[1].dy

\* C18's case: a rising window that had both vertical flags set hits the
\* ceiling block: only bottom is set afterwards and the velocity is 0.
C18_Witness ==
  /\ collided # None
  /\ collided[1].collision_types.top
  /\ collided[1].dy = 4
  /\ collided[4].collision_types.bottom
  /\ ~collided[4].collision_types.top
  /\ collided[4].dy = 0
\* Frame S has the world and the sector index of the current state.
StoreKept(S) == S.world = world /\ S.sectors = sectors

\* Frame S comes from a sector operation that kept to its frame: the store
\* is kept, the backend was not called, the rendered set is as it was, and
\* the queue was only appended to.
StreamedOnly(S) ==
  /\ StoreKept(S)
  /\ S.calls = <<>>
  /\ S._shown = _shown
  /\ Len(S.queue) >= Len(queue)
  /\ SubSeq(S.queue, 1, Len(queue)) = queue

\* C19: show, hide, show_sector, hide_sector and change_sectors never change
\* the world or the sector index; the three sector operations never call the
\* backend, they only change the shown set and append to the queue; running
\* a queued entry changes only the rendered set and the queue.
C19_FrameConditions ==
  /\ \A p \in QueuePositions, immediate \in BOOLEAN :
       /\ StoreKept(show_block(Cur, p, immediate))
       /\ StoreKept(hide_block(Cur, p, immediate))
  /\ \A s \in {sectorize(Real(p)) : p \in QueuePositions} :
       /\ StreamedOnly(show_sector(Cur, s))
       /\ StreamedOnly(hide_sector(Cur, s))
  /\ \A b \in PlayerSectors \cup {None}, a \in PlayerSectors :
       StreamedOnly(change_sectors(Cur, b, a))
  /\ queue # <<>> =>
       /\ StoreKept(_dequeue(Cur))
       /\ _dequeue(Cur).shown = shown
  /\ \A n \in 0..Len(queue) :
       /\ StoreKept(process_queue(Cur, n))
       /\ process_queue(Cur, n).shown = shown

\* C19's case: sector (0,0,0) was streamed out and in again with nothing
\* drained in between: its block is shown and rendered, and its hide and its
\* show wait in the queue.
C19_Witness ==
  /\ <<0, 0, 0>> \in DOMAIN world
  /\ <<0, 0, 0>> \in DOMAIN shown
  /\ <<0, 0, 0>> \in _shown
  /\ queue = << <<"_hide_block", <<0, 0, 0>> >>,
                <<"_show_block", <<0, 0, 0>>, world[<<0, 0, 0>>]>> >>
\* C20: as long as ticks keep occurring, every entry appended to the queue
\* is eventually executed, whatever is enqueued behind it.
C20_QueuedEntryIsExecuted == (mark > 0) ~> (mark = 0)

\* C20's case: the followed entry is at the head of the queue, with an entry
\* enqueued behind it.
C20_Witness == mark = 1 /\ Len(queue) = MaxQueue /\ window_sector # None

\* A tick in the order motion, streaming, drain: the position the motion
\* steps leave, the sector judged on it, and the model after the streaming
\* that the change of sector asks for followed by the budgeted drain.
StatedTick(n, move) ==
  LET at == motion(Cur, window_position, move, Steps)
      after == sectorize(at)
      S1 == IF after = window_sector THEN Cur
            ELSE LET S2 == change_sectors(Cur, window_sector, after)
                 IN  IF window_sector = None THEN process_entire_queue(S2)
                     ELSE S2
  IN  [at |-> at, sector |-> after, model |-> process_queue(S1, n)]

\* C21 as stated: within a tick the collision resolver corrects the position
\* first, then a change of sector enqueues its work, and only then the
\* budgeted drain runs, once, so that it can already drain that work.
C21_MoveThenStreamThenDrain ==
  [][\A n \in 1..MaxQueue, move \in Walks \cup Falls :
       Update(n, move) =>
         LET T == StatedTick(n, move)
         IN  /\ window_position' = T.at
             /\ window_sector' = T.sector
             /\ shown' = T.model.shown
             /\ _shown' = T.model._shown
             /\ queue' = T.model.queue]_vars

\* The entries a frame's queue holds behind the first k.
Behind(S, k) == SubSeq(S.queue, k + 1, Len(S.queue))

\* C21: within a tick the budgeted drain runs first, once, on the queue the
\* tick found; then a change of sector, judged on the position the previous
\* tick left, enqueues its work, all of which waits for a later tick (on the
\* first tick, with no sector known yet, a full drain follows and empties the
\* queue); only then the collision resolver corrects the position.
C21_DrainThenStreamThenMove ==
  [][\A n \in 1..MaxQueue, move \in Walks \cup Falls :
       Update(n, move) =>
         LET after == sectorize(window_position)
             D == process_queue(Cur, n)
             C == change_sectors(Cur, window_sector, after)
         IN  /\ window_sector' = after
             /\ window_position' = motion(Cur, window_position, move, Steps)
             /\ after = window_sector =>
                  /\ queue' = D.queue
                  /\ _shown' = D._shown
                  /\ shown' = shown
             /\ (after # window_sector /\ window_sector # None) =>
                  /\ queue' = D.queue \o Behind(C, Len(queue))
                  /\ _shown' = D._shown
                  /\ shown' = C.shown
             /\ window_sector = None => queue' = <<>>]_vars

\* C21's case: the player has crossed the border of its sector with an empty
\* queue, and the tick that noticed it has left the hide of the far block,
\* which the change of sector enqueued, in the queue.
C21_Witness ==
  /\ window_sector = <<0, 0, 1>>
  /\ FarBlock \in DOMAIN world
  /\ FarBlock \notin DOMAIN shown
  /\ FarBlock \in _shown
  /\ queue = << <<"_hide_block", FarBlock>> >>
\* C22: from an empty world with an empty queue, under non-deferred adds and
\* removes only, the shown positions are exactly the positions of the world
\* that are exposed, and the rendered positions are the shown ones.
C22_ShownIsExposedAndRendered ==
  /\ DOMAIN shown = {p \in DOMAIN world : exposed(Cur, p)}
  /\ _shown = DOMAIN shown

\* C22's case: the centre has been enclosed by its six neighbours and is
\* neither shown nor rendered, while the six are.
C22_Witness ==
  /\ DOMAIN world = Positions
  /\ <<0, 0, 0>> \notin DOMAIN shown
  /\ <<0, 0, 0>> \notin _shown
  /\ _shown = Positions \ {<<0, 0, 0>>}

\* C22's other case: the centre, of STONE, is open on one side and is shown
\* and rendered.
C22_WitnessReopened ==
  /\ DOMAIN world = Positions \ {<<1, 0, 0>>}
  /\ <<0, 0, 0>> \in DOMAIN shown
  /\ <<0, 0, 0>> \in _shown
  /\ world[<<0, 0, 0>>] = STONE
\* Where the clicking player may stand.
Eyes == {p \in Arena : p[1] % SubSteps = 0}

\* C23: when hit_test returns a hit, the previous position it returns is
\* either None, and then the cell of the origin is the occupied hit, or a
\* position that is not in the world and is not the hit; so a placing press,
\* which adds at the previous position, leaves every block of the world in
\* place with its material and adds at most the one block.
C23_PreviousIsFree ==
  \A vector \in Sights :
    /\ \A at \in Eyes :
         LET found == hit_test(Cur, at, vector, MAX_DISTANCE)
         IN  found[1] # None =>
               /\ found[1] \in DOMAIN world
               /\ found[2] = None => found[1] = normalize(at)
               /\ found[2] # None =>
                    /\ found[2] \notin DOMAIN world
                    /\ found[2] # found[1]
    /\ \A button \in {LEFT, RIGHT}, block \in Held :
         LET S == on_mouse_press(Cur, window_position, vector, button,
                                 button = LEFT, block)
             found == hit_test(Cur, window_position, vector, MAX_DISTANCE)
         IN  /\ \A p \in DOMAIN world :
                  p \in DOMAIN S.world /\ S.world[p] = world[p]
             /\ DOMAIN S.world \subseteq DOMAIN world \cup {found[2]}
             /\ found[2] # None =>
                  /\ found[2] \in DOMAIN S.world
                  /\ S.world[found[2]] = block

\* C23's case: a placing press at the STONE block two cells ahead has put
\* the held material in the cell before it, and the ray of a second press
\* has hit the placed block from the player's own cell.
C23_Witness ==
  /\ exclusive
  /\ <<16, 30, 14>> \in DOMAIN world
  /\ <<16, 30, 15>> \in DOMAIN world
  /\ world[<<16, 30, 14>>] = STONE
  /\ world[<<16, 30, 15>>] = inventory[1]
  /\ hit # None
  /\ hit[4] = <<(<<16, 30, 15>>), (<<16, 30, 16>>)>>

\* C23's other case: the player stands in a block it has placed, and the ray
\* has hit that block with no previous position.
C23_WitnessInside ==
  /\ hit # None
  /\ hit[4][1] = normalize(window_position)
  /\ hit[4][2] = None

\* C24: no press of a mouse button, whatever the button, the modifier, the
\* held material, the position and the sight, removes or replaces a STONE
\* block: a position that holds STONE holds STONE after the press.
C24_StoneStays ==
  [][Press =>
       \A p \in DOMAIN world :
         world[p] = STONE => p \in DOMAIN world' /\ world'[p] = STONE]_vars

\* C24's case: the ray of a removing press has hit a STONE block, which is
\* still in the world (a placing press would have filled the previous
\* position).
C24_Witness ==
  /\ exclusive
  /\ hit # None
  /\ hit[4][1] \in DOMAIN world
  /\ world[hit[4][1]] = STONE
  /\ hit[4][2] # None
  /\ hit[4][2] \notin DOMAIN world
====
